---- MODULE Spec2Model ----
(***************************************************************************)
(* The caching and invalidation core of the Strudel sampler router         *)
(* (createSamplerRouter): two single-slot TTL caches (the directory scan   *)
(* and the metadata batch), the asynchronous scan and extraction that fill *)
(* them, and invalidateCaches.  Every await on real I/O (readdir, stat,    *)
(* parseFile) is a step boundary; what runs between two such awaits runs   *)
(* in one step, as on Node's single-threaded event loop.                   *)
(***************************************************************************)
EXTENDS Integers, Sequences, FiniteSets, TLC

\* ---------------------------------------------------------------- bounds
NumProcs == 2      \* requests that can be in flight at once
MaxFiles == 2      \* audio files that can exist under the sample root
MaxTime == 3       \* the clock (Date.now()) runs from 0 to MaxTime
PosTTL == 2        \* the positive cacheTTL tried (0 is the other one)
PosMaxSize == 1    \* the positive cacheMaxSize tried (0 is the other one)

Procs == 1..NumProcs
Files == 1..MaxFiles
TTLValues == {0, PosTTL}
MaxSizeValues == {0, PosMaxSize}

VARIABLES
  cacheTTL,       \* options.cacheTTL
  cacheMaxSize,   \* options.cacheMaxSize
  now,            \* Date.now()
  fs,             \* the audio files that exist under the sample root
  samplesCache,   \* the slot of createTTLCache<SampleEntry[]>
  metadataCache,  \* the slot of createTTLCache<MetadataResult[]>
  req,            \* per request handler: where it is and its locals
  win,            \* observer: see WinAfter
  lastClear,      \* observer: see ClearAfter
  batch,          \* one run of the metadata factory, entry by entry
  walk,           \* one run of collectSampleEntries over a directory tree
  fileReq,        \* one GET /files/* request
  idCalls,        \* the calls of createSampleId made so far
  manifest,       \* one GET / request, from the entries to the payload
  hot             \* the watchers of one entry point and what they did

vars ==
  <<cacheTTL, cacheMaxSize, now, fs, samplesCache, metadataCache, req, win,
    lastClear, batch, walk, fileReq, idCalls, manifest, hot>>

\* the variables of the specification of the caches
caches ==
  <<cacheTTL, cacheMaxSize, now, fs, samplesCache, metadataCache, req, win,
    lastClear>>

\* the variables that the specification of the caches leaves alone
runs == <<batch, walk, fileReq, idCalls, manifest, hot>>

\* The variables of runs follow one run of a part of the program in more
\* detail than req does (names, sizes, failures of the I/O calls).  Each
\* has a specification of its own below; none of them is running in the
\* others, nor in the specification of the caches.
NoBatch ==
  [pc |-> "idle", entries |-> <<>>, i |-> 1, results |-> <<>>, failed |-> {}]
NoWalk ==
  [pc |-> "idle", tree |-> {}, stack |-> <<>>, current |-> <<>>,
   dirents |-> <<>>, i |-> 1, entries |-> <<>>, statFailed |-> {},
   status |-> 0]
NoFileReq ==
  [pc |-> "idle", server |-> "none",
   relative |-> [abs |-> FALSE, segs |-> <<>>], exists |-> {},
   status |-> 0, headers |-> {}, stream |-> <<>>, streamed |-> <<>>]
NoIdCalls == <<>>
NoManifest ==
  [pc |-> "idle", entries |-> <<>>, payload |-> <<>>, status |-> 0]
NoHot ==
  [pc |-> "idle", entry |-> "none", option |-> FALSE, watchers |-> <<>>,
   watchCalls |-> <<>>, viteWatch |-> FALSE, events |-> 0, sent |-> <<>>,
   registered |-> 0, listening |-> FALSE, closes |-> 0]
\* the runs that are told apart below by createSampleId, the manifest and
\* the watchers are not under way
NamesAtRest == idCalls = NoIdCalls /\ manifest = NoManifest /\ hot = NoHot

\* --------------------------------------------------------------- readdir
\* readdir lists a directory in an order that is a function of its content
RECURSIVE Listing(_)
Listing(S) ==
  IF S = {} THEN <<>>
  ELSE LET m == CHOOSE x \in S : \A y \in S : x <= y
       IN  <<m>> \o Listing(S \ {m})

\* ------------------------------------------------------------ TTL cache
\* let cache: { value, expires } | null = null
Empty == [full |-> FALSE, value |-> <<>>, expires |-> 0]

\* variants of the liveness test that the code does not implement: one
\* that still serves at now = expires, one that never expires
IsLive_AtExpiry(c) == cacheTTL > 0 /\ c.full /\ c.expires >= now
IsLive_NoExpiry(c) == cacheTTL > 0 /\ c.full

\* get: the test that serves the stored value
IsLive(c) == cacheTTL > 0 /\ c.full /\ c.expires > now

\* variants of the store that the code does not implement: one that ignores
\* ttl <= 0, one that drops the result of a factory that clear() overtook
Store_Always(v) == [full |-> TRUE, value |-> v, expires |-> now + cacheTTL]
Store_UnlessCleared(v) ==
  IF cacheTTL > 0 /\ lastClear # "inv"
    THEN [full |-> TRUE, value |-> v, expires |-> now + cacheTTL]
    ELSE Empty

\* variant of the store in which a value already live in the samples slot
\* is kept (the first of several concurrent recomputations wins)
Store_KeepLive(v) ==
  IF cacheTTL > 0 /\ samplesCache.full /\ samplesCache.expires > now
    THEN samplesCache
    ELSE IF cacheTTL > 0
      THEN [full |-> TRUE, value |-> v, expires |-> now + cacheTTL]
      ELSE Empty

\* get: what the slot becomes once the factory has returned value v
Store(v) ==
  IF cacheTTL > 0
    THEN [full |-> TRUE, value |-> v, expires |-> now + cacheTTL]
    ELSE Empty

\* clear()
Clear == Empty

\* variant of the size test that already fires at cacheMaxSize entries
Oversize_AtMax(v) == cacheMaxSize > 0 /\ Len(v) >= cacheMaxSize

\* the size test of loadEntries and of the metadata factory
Oversize(v) == cacheMaxSize > 0 /\ Len(v) > cacheMaxSize

\* variant of loadEntries that never clears the slot
ClearIfOversize_Never(c, e) == c

\* loadEntries, after samplesCache.get has returned entries e with the slot c
ClearIfOversize(c, e) == IF Oversize(e) THEN Clear ELSE c

\* ------------------------------------------------------------- requests
Idle ==
  [pc |-> "idle", op |-> "none", dirents |-> <<>>, entries |-> <<>>,
   results |-> <<>>, ret |-> <<>>, hit |-> FALSE]

\* the response is sent: the locals are dropped, ret is what was returned
Done(r, v) ==
  [r EXCEPT !.pc = "done", !.dirents = <<>>, !.entries = <<>>,
            !.results = <<>>, !.ret = v]

\* the record of a request of the given kind that has just arrived
Fresh(kind) == [Idle EXCEPT !.op = kind]

InFlight(p) == req[p].pc \in {"readdir", "stat", "parse"}

\* one MetadataResult of the batch (the record of entry e)
MetadataResult(e) == [id |-> e]

\* the metadata factory returns results r: its own cache.clear() runs first,
\* then get assigns the slot
MetadataFinish(c, r) ==
  LET cleared == IF Oversize(r) THEN Clear ELSE c
  IN  Store(r)

\* The outcome of one step of a request: the two slots, the request's
\* record, and what the step did (for the observers below).
Out(sc, mc, r, called, stored) ==
  [sc |-> sc, mc |-> mc, r |-> r, called |-> called, stored |-> stored,
   cleared |-> FALSE]

\* What follows, up to the next await on I/O, once loadEntries has its
\* entries e and samplesCache.get has left the samples slot as sc.
AfterEntries(r, e, sc, called, stored) ==
  LET sc2 == ClearIfOversize(sc, e)
      o == [Out(sc2, metadataCache, r, called, stored)
              EXCEPT !.cleared = Oversize(e)]
  IN  IF r.op = "entries"
        THEN [o EXCEPT !.r = Done(r, e)]
      ELSE IF e = <<>>
        THEN [o EXCEPT !.mc = MetadataFinish(metadataCache, <<>>),
                       !.r = Done(r, <<>>)]
      ELSE [o EXCEPT !.r = [r EXCEPT !.pc = "parse", !.dirents = <<>>,
                                     !.entries = e, !.results = <<>>]]

\* variant of get whose hit renews the expiry (a sliding window)
LoadEntries_Sliding(r) ==
  IF IsLive(samplesCache)
    THEN AfterEntries([r EXCEPT !.hit = (r.op = "entries")],
                      samplesCache.value, Store(samplesCache.value),
                      TRUE, FALSE)
    ELSE Out(samplesCache, metadataCache, [r EXCEPT !.pc = "readdir"],
             TRUE, FALSE)

\* loadEntries called by request record r: samplesCache.get either serves
\* the slot or starts collectSampleEntries, which awaits readdir
LoadEntries(r) ==
  IF IsLive(samplesCache)
    THEN AfterEntries([r EXCEPT !.hit = (r.op = "entries")],
                      samplesCache.value, samplesCache, TRUE, FALSE)
    ELSE Out(samplesCache, metadataCache, [r EXCEPT !.pc = "readdir"],
             TRUE, FALSE)

\* ------------------------------------------------------------ observers
\* win[p]: the end of the TTL window of the listEntries call that handler p
\* completed last, 0 once the file system changed or invalidateCaches ran
\* (or when there is none), negated once another request stored a scan.
WinAfter(p, q, out) ==
  IF q = p
    THEN IF out.r.pc = "done" /\ out.r.op = "entries" /\ cacheTTL > 0
           THEN IF out.r.hit THEN samplesCache.expires ELSE now + cacheTTL
           ELSE 0
    ELSE IF out.stored /\ win[q] > 0 THEN 0 - win[q] ELSE win[q]

\* lastClear: how the samples slot was last emptied, while no listEntries
\* call has started since: "inv" (invalidateCaches) or "ovf" (the size
\* test of loadEntries); "_stored" once a scan has been stored since.
ClearAfter(out) ==
  LET a == IF out.called THEN "none" ELSE lastClear
      b == IF out.stored /\ a = "inv" THEN "inv_stored"
           ELSE IF out.stored /\ a = "ovf" THEN "ovf_stored"
           ELSE a
  IN  IF out.cleared THEN "ovf" ELSE b

Apply(p, out) ==
  /\ samplesCache' = out.sc
  /\ metadataCache' = out.mc
  /\ req' = [req EXCEPT ![p] = out.r]
  /\ win' = [q \in Procs |-> WinAfter(p, q, out)]
  /\ lastClear' = ClearAfter(out)
  /\ UNCHANGED <<runs, cacheTTL, cacheMaxSize, now, fs>>

\* ------------------------------------------------------------- handlers
\* router.get('/'), '/stats', '/manifest': await loadEntries()
GetEntries(p) ==
  /\ ~InFlight(p)
  /\ Apply(p, LoadEntries(Fresh("entries")))

\* variant of loadMetadata whose get runs the factory even on a live slot
GetMetadata_AlwaysLoad(p) ==
  /\ ~InFlight(p)
  /\ Apply(p, LoadEntries(Fresh("metadata")))

\* router.get('/metadata'): await loadMetadata()
GetMetadata(p) ==
  /\ ~InFlight(p)
  /\ IF IsLive(metadataCache)
       THEN Apply(p, Out(samplesCache, metadataCache,
                         Done([Fresh("metadata") EXCEPT !.hit = TRUE],
                              metadataCache.value),
                         FALSE, FALSE))
       ELSE Apply(p, LoadEntries(Fresh("metadata")))

\* variant of the scan that returns after its first entry
ScanFinished_Early(d, e) == Len(e) = Len(d) \/ Len(e) = 1

\* the scan is over when every dirent has its entry
ScanFinished(d, e) == Len(e) = Len(d)

\* collectSampleEntries: readdir of the root returns
Readdir(p) ==
  /\ req[p].pc = "readdir"
  /\ IF ScanFinished(Listing(fs), <<>>)
       THEN Apply(p, AfterEntries(req[p], <<>>, Store(<<>>), FALSE,
                                  cacheTTL > 0))
       ELSE Apply(p, Out(samplesCache, metadataCache,
                         [req[p] EXCEPT !.pc = "stat",
                                        !.dirents = Listing(fs),
                                        !.entries = <<>>],
                         FALSE, FALSE))

\* collectSampleEntries: one stat returns and the entry is pushed
Stat(p) ==
  /\ req[p].pc = "stat"
  /\ LET r == req[p]
         e == Append(r.entries, r.dirents[Len(r.entries) + 1])
     IN  IF ScanFinished(r.dirents, e)
           THEN Apply(p, AfterEntries(r, e, Store(e), FALSE, cacheTTL > 0))
           ELSE Apply(p, Out(samplesCache, metadataCache,
                             [r EXCEPT !.entries = e], FALSE, FALSE))

\* the metadata factory: one mm.parseFile settles and the record is pushed
ParseFile(p) ==
  /\ req[p].pc = "parse"
  /\ LET r == req[p]
         rs == Append(r.results, MetadataResult(r.entries[Len(r.results) + 1]))
     IN  IF Len(rs) = Len(r.entries)
           THEN Apply(p, Out(samplesCache, MetadataFinish(metadataCache, rs),
                             Done(r, rs), FALSE, FALSE))
           ELSE Apply(p, Out(samplesCache, metadataCache,
                             [r EXCEPT !.results = rs], FALSE, FALSE))

\* variant of invalidateCaches that stops between its two clears
InvalidateCaches_SamplesOnly ==
  /\ samplesCache' = Clear
  /\ win' = [q \in Procs |-> 0]
  /\ lastClear' = "inv"
  /\ UNCHANGED <<runs, cacheTTL, cacheMaxSize, now, fs, req, metadataCache>>

\* variant of invalidateCaches that forgets the samples slot
InvalidateCaches_MetadataOnly ==
  /\ metadataCache' = Clear
  /\ win' = [q \in Procs |-> 0]
  /\ lastClear' = "inv"
  /\ UNCHANGED <<runs, cacheTTL, cacheMaxSize, now, fs, req, samplesCache>>

\* the two clears of invalidateCaches
ClearBoth ==
  /\ samplesCache' = Clear
  /\ metadataCache' = Clear
  /\ win' = [q \in Procs |-> 0]
  /\ lastClear' = "inv"
  /\ UNCHANGED <<cacheTTL, cacheMaxSize, now, fs, req>>

\* invalidateCaches
InvalidateCaches == ClearBoth /\ UNCHANGED runs

\* ---------------------------------------------------------- environment
\* time passes
Tick ==
  /\ now < MaxTime
  /\ now' = now + 1
  /\ UNCHANGED <<runs, cacheTTL, cacheMaxSize, fs, samplesCache, metadataCache,
                 req, win, lastClear>>

\* an audio file is created under the root
FsAdd(f) ==
  /\ f \notin fs
  /\ fs' = fs \cup {f}
  /\ win' = [q \in Procs |-> 0]
  /\ UNCHANGED <<runs, cacheTTL, cacheMaxSize, now, samplesCache, metadataCache,
                 req, lastClear>>

\* an audio file is deleted
FsRemove(f) ==
  /\ f \in fs
  /\ fs' = fs \ {f}
  /\ win' = [q \in Procs |-> 0]
  /\ UNCHANGED <<runs, cacheTTL, cacheMaxSize, now, samplesCache, metadataCache,
                 req, lastClear>>

\* ------------------------------------------------------- specification
Init ==
  /\ cacheTTL \in TTLValues
  /\ cacheMaxSize \in MaxSizeValues
  /\ now = 0
  /\ fs = {}
  /\ samplesCache = Empty
  /\ metadataCache = Empty
  /\ req = [p \in Procs |-> Idle]
  /\ win = [p \in Procs |-> 0]
  /\ lastClear = "none"
  /\ batch = NoBatch
  /\ walk = NoWalk
  /\ fileReq = NoFileReq
  /\ NamesAtRest

Next ==
  \/ \E p \in Procs : GetEntries(p)
  \/ \E p \in Procs : GetMetadata(p)
  \/ \E p \in Procs : Readdir(p)
  \/ \E p \in Procs : Stat(p)
  \/ \E p \in Procs : ParseFile(p)
  \/ InvalidateCaches
  \/ Tick
  \/ \E f \in Files : FsAdd(f)
  \/ \E f \in Files : FsRemove(f)

Spec == Init /\ [][Next]_vars

\* The router when only GET / is requested (listEntries): the metadata
\* slot stays empty and the samples slot is the one cache in play.
EntriesNext ==
  \/ \E p \in Procs : GetEntries(p)
  \/ \E p \in Procs : Readdir(p)
  \/ \E p \in Procs : Stat(p)
  \/ InvalidateCaches
  \/ Tick
  \/ \E f \in Files : FsAdd(f)
  \/ \E f \in Files : FsRemove(f)

\* Pending readdir and stat calls complete: the event loop runs the
\* continuation of every I/O call that has been issued.
FairEntriesSpec ==
  /\ Init
  /\ [][EntriesNext]_vars
  /\ \A p \in Procs : WF_vars(Readdir(p)) /\ WF_vars(Stat(p))

\* ---------------------------------------------------------------- names
\* A string is a sequence of characters, a path a sequence of names (its
\* components); Null is null or undefined, Some(x) a value that is there.
Null == <<>>
Some(x) == <<x>>

UpperCase ==
  <<"A", "B", "C", "D", "E", "F", "G", "H", "I", "J", "K", "L", "M",
    "N", "O", "P", "Q", "R", "S", "T", "U", "V", "W", "X", "Y", "Z">>
LowerCase ==
  <<"a", "b", "c", "d", "e", "f", "g", "h", "i", "j", "k", "l", "m",
    "n", "o", "p", "q", "r", "s", "t", "u", "v", "w", "x", "y", "z">>

\* String.prototype.toLowerCase
Lower(ch) ==
  IF \E k \in 1..Len(UpperCase) : UpperCase[k] = ch
    THEN LowerCase[CHOOSE k \in 1..Len(UpperCase) : UpperCase[k] = ch]
    ELSE ch
ToLowerCase(s) == [k \in 1..Len(s) |-> Lower(s[k])]

\* the position of the last "." of s, 0 when it has none
LastDot(s) ==
  LET D == {k \in 1..Len(s) : s[k] = "."}
  IN  IF D = {} THEN 0 ELSE CHOOSE k \in D : \A j \in D : j <= k

\* path.extname of a path whose last component is s: from the last "." on,
\* and nothing when there is no ".", when the only one starts the name, or
\* when the name is ".."
Extname(s) ==
  LET d == LastDot(s)
  IN  IF d = 0 \/ d = 1 \/ s = <<".", ".">> THEN <<>>
      ELSE SubSeq(s, d, Len(s))

AUDIO_EXTENSIONS ==
  { <<".", "m", "p", "3">>, <<".", "w", "a", "v">>, <<".", "o", "g", "g">>,
    <<".", "f", "l", "a", "c">>, <<".", "m", "4", "a">>,
    <<".", "a", "i", "f", "f">> }

\* variant of isAudio that compares the extension as it is spelled
IsAudio_CaseSensitive(s) == Extname(s) \in AUDIO_EXTENSIONS

isAudio(s) == ToLowerCase(Extname(s)) \in AUDIO_EXTENSIONS

\* createSampleId, replace(/\s+/g, '_'): every run of white space becomes
\* one "_"
WhiteSpace == {" ", "\t", "\n"}
RECURSIVE SpacesToUnderscore(_, _)
SpacesToUnderscore(s, inRun) ==
  IF s = <<>> THEN <<>>
  ELSE IF Head(s) \in WhiteSpace
    THEN (IF inRun THEN <<>> ELSE <<"_">>) \o SpacesToUnderscore(Tail(s), TRUE)
  ELSE <<Head(s)>> \o SpacesToUnderscore(Tail(s), FALSE)

\* createSampleId, the characters that replace(/[^a-zA-Z0-9_.-]/g, '') keeps
IdChars ==
  { "a", "b", "c", "d", "e", "f", "g", "h", "i", "j", "k", "l", "m", "n",
    "o", "p", "q", "r", "s", "t", "u", "v", "w", "x", "y", "z",
    "A", "B", "C", "D", "E", "F", "G", "H", "I", "J", "K", "L", "M", "N",
    "O", "P", "Q", "R", "S", "T", "U", "V", "W", "X", "Y", "Z",
    "0", "1", "2", "3", "4", "5", "6", "7", "8", "9", "_", ".", "-" }
KeepIdChar(ch) == ch \in IdChars

\* createSampleId, replace(/\.[^.]+$/, ''): a last "." that is followed by
\* at least one character is cut off with what follows it
StripExtension(s) ==
  LET d == LastDot(s)
  IN  IF d > 0 /\ d < Len(s) THEN SubSeq(s, 1, d - 1) ELSE s

\* an absolute path, held here as the sequence of its names, as the string
\* the code holds
RECURSIVE Slashed(_)
Slashed(path) ==
  IF path = <<>> THEN <<>> ELSE <<"/">> \o Head(path) \o Slashed(Tail(path))
Render(path) == IF path = <<>> THEN <<"/">> ELSE Slashed(path)

\* path.basename: the last name of the path
Basename(fullPath) == fullPath[Len(fullPath)]

\* variant of createSampleId that removes the characters outside the
\* class before it replaces the white space
createSampleId_RemoveFirst(fullPath) ==
  StripExtension(ToLowerCase(
    SpacesToUnderscore(SelectSeq(Basename(fullPath), KeepIdChar), FALSE)))

\* variant of createSampleId that works on the whole path
createSampleId_WholePath(fullPath) ==
  StripExtension(ToLowerCase(
    SelectSeq(SpacesToUnderscore(Slashed(fullPath), FALSE), KeepIdChar)))

\* createSampleId(fullPath): the four replacements in the order of the
\* source, on the base name
createSampleId(fullPath) ==
  StripExtension(ToLowerCase(
    SelectSeq(SpacesToUnderscore(Basename(fullPath), FALSE), KeepIdChar)))

\* the normalized sample root, /srv/s
normalizedRoot == << <<"s", "r", "v">>, <<"s">> >>

\* the SampleEntry that collectSampleEntries pushes for the file called
\* name in the directory dir (a path relative to the root)
SampleEntry(dir, name, size) ==
  [id |-> createSampleId(normalizedRoot \o dir \o <<name>>),
   relativePath |-> dir \o <<name>>,
   absolutePath |-> normalizedRoot \o dir \o <<name>>,
   size |-> size]

\* ------------------------------------------------- the metadata factory
MaxBatch == 2      \* entries that loadEntries can return to the factory

\* what the scan can return: audio files, in the root or in a directory
\* below it, with the size stat gave or 0
BatchNames ==
  { <<"a", ".", "w", "a", "v">>, <<"A", ".", "W", "A", "V">>,
    <<"a", " ", "w", "$", ".", "m", "p", "3">> }
BatchEntryPool ==
  { SampleEntry(d, n, z) :
      d \in {<<>>, << <<"k", "i", "t">> >>}, n \in BatchNames, z \in {0, 7} }
BatchInputs ==
  UNION { [1..n -> BatchEntryPool] : n \in 0..MaxBatch }

\* what mm.parseFile can resolve to: a format with every field, or with
\* none of them
ParsedFormats ==
  { [duration |-> Some(2), container |-> Some(<<"W", "A", "V", "E">>),
     sampleRate |-> Some(44100), numberOfChannels |-> Some(2)],
    [duration |-> Null, container |-> Null, sampleRate |-> Null,
     numberOfChannels |-> Null] }

\* variant of fallbackFormat that keeps the dot of the extension
fallbackFormat_WithDot(entry) ==
  LET ext == Extname(entry.absolutePath[Len(entry.absolutePath)])
  IN  IF Len(ext) > 0 THEN Some(ext) ELSE Null

\* String.prototype.slice(1)
Slice1(s) == IF Len(s) <= 1 THEN <<>> ELSE SubSeq(s, 2, Len(s))

\* fallbackFormat: path.extname(entry.absolutePath).slice(1), or null
fallbackFormat(entry) ==
  LET ext == Slice1(Extname(entry.absolutePath[Len(entry.absolutePath)]))
  IN  IF Len(ext) > 0 THEN Some(ext) ELSE Null

\* the record pushed when mm.parseFile resolved to a metadata with format f
ParsedRecord(entry, f) ==
  [id |-> entry.id, path |-> entry.relativePath,
   duration |-> f.duration,
   format |-> IF f.container # Null THEN f.container
              ELSE fallbackFormat(entry),
   sampleRate |-> f.sampleRate, channels |-> f.numberOfChannels,
   size |-> entry.size]

\* the record pushed by the catch block
DegradedRecord(entry) ==
  [id |-> entry.id, path |-> entry.relativePath, duration |-> Null,
   format |-> fallbackFormat(entry), sampleRate |-> Null, channels |-> Null,
   size |-> entry.size]

\* variant of the loop in which a failed extraction pushes no record
BatchAfter_SkipFailed(b, rec, ok) ==
  LET rs == IF ok THEN Append(b.results, rec) ELSE b.results
  IN  [b EXCEPT !.results = rs, !.i = b.i + 1,
                !.failed = IF ok THEN b.failed ELSE b.failed \cup {b.i},
                !.pc = IF b.i = Len(b.entries) THEN "done" ELSE "parse"]

\* the loop body has pushed rec for entry i: on to the next entry, or
\* return results after the last one
BatchAfter(b, rec, ok) ==
  [b EXCEPT !.results = Append(b.results, rec), !.i = b.i + 1,
            !.failed = IF ok THEN b.failed ELSE b.failed \cup {b.i},
            !.pc = IF b.i = Len(b.entries) THEN "done" ELSE "parse"]

\* await mm.parseFile(entry.absolutePath) resolves
BatchParsed(f) ==
  /\ batch.pc = "parse"
  /\ batch' = BatchAfter(batch, ParsedRecord(batch.entries[batch.i], f), TRUE)
  /\ UNCHANGED <<walk, fileReq, idCalls, manifest, hot,
                 cacheTTL, cacheMaxSize, now, fs,
                 samplesCache, metadataCache, req, win, lastClear>>

\* await mm.parseFile(entry.absolutePath) rejects
BatchParseFailed ==
  /\ batch.pc = "parse"
  /\ batch' = BatchAfter(batch, DegradedRecord(batch.entries[batch.i]), FALSE)
  /\ UNCHANGED <<walk, fileReq, idCalls, manifest, hot,
                 cacheTTL, cacheMaxSize, now, fs,
                 samplesCache, metadataCache, req, win, lastClear>>

\* the configuration and the caches while one component is followed alone
CachesAtRest ==
  /\ cacheTTL = 0 /\ cacheMaxSize = 0 /\ now = 0 /\ fs = {}
  /\ samplesCache = Empty /\ metadataCache = Empty
  /\ req = [p \in Procs |-> Idle]
  /\ win = [p \in Procs |-> 0]
  /\ lastClear = "none"

\* loadEntries has returned entries to the factory
BatchInit ==
  /\ CachesAtRest /\ NamesAtRest
  /\ walk = NoWalk /\ fileReq = NoFileReq
  /\ \E e \in BatchInputs :
       batch = [NoBatch EXCEPT !.entries = e,
                               !.pc = IF e = <<>> THEN "done" ELSE "parse"]

BatchNext ==
  \/ \E f \in ParsedFormats : BatchParsed(f)
  \/ BatchParseFailed

BatchSpec == BatchInit /\ [][BatchNext]_vars

\* ------------------------------------------------ collectSampleEntries
MaxWalkFiles == 2  \* objects that are not directories under the root

\* The content of the root is a set of objects [path, name, kind]: the
\* object called name in the directory at path (relative to the root) is a
\* directory ("dir"), a regular file ("file") or something else ("other":
\* a symbolic link, a socket).
WalkShapes ==
  { {},
    { [path |-> <<>>, name |-> <<"k">>, kind |-> "dir"] },
    { [path |-> <<>>, name |-> <<"d", ".", "w", "a", "v">>, kind |-> "dir"] },
    { [path |-> <<>>, name |-> <<"k">>, kind |-> "dir"],
      [path |-> <<>>, name |-> <<"l">>, kind |-> "dir"] },
    { [path |-> <<>>, name |-> <<"k">>, kind |-> "dir"],
      [path |-> << <<"k">> >>, name |-> <<"l">>, kind |-> "dir"] } }

WalkNames ==
  { <<"a", ".", "w", "a", "v">>, <<"A", ".", "W", "A", "V">>,
    <<"a", ".", "t", "x", "t">>, <<".", "w", "a", "v">>, <<"w">> }

\* the directories of a shape, the root included
DirsOf(shape) == {<<>>} \cup {o.path \o <<o.name>> : o \in shape}

\* the sets of at most n members of S
RECURSIVE SetsUpTo(_, _)
SetsUpTo(S, n) ==
  IF n = 0 THEN {{}}
  ELSE LET P == SetsUpTo(S, n - 1) IN P \cup {F \cup {x} : F \in P, x \in S}

WalkTrees ==
  UNION { { shape \cup files :
              files \in { F \in SetsUpTo([path : DirsOf(shape),
                                          name : WalkNames,
                                          kind : {"file", "other"}],
                                         MaxWalkFiles) :
                            \A f, g \in F :
                              (f.path = g.path /\ f.name = g.name)
                                => f = g } } :
          shape \in WalkShapes }

\* the order in which readdir lists what a directory holds
ReaddirOrder ==
  << [name |-> <<"a", ".", "w", "a", "v">>, kind |-> "file"],
     [name |-> <<"k">>, kind |-> "dir"],
     [name |-> <<"a", ".", "w", "a", "v">>, kind |-> "other"],
     [name |-> <<"A", ".", "W", "A", "V">>, kind |-> "file"],
     [name |-> <<"A", ".", "W", "A", "V">>, kind |-> "other"],
     [name |-> <<"d", ".", "w", "a", "v">>, kind |-> "dir"],
     [name |-> <<"a", ".", "t", "x", "t">>, kind |-> "file"],
     [name |-> <<"a", ".", "t", "x", "t">>, kind |-> "other"],
     [name |-> <<"l">>, kind |-> "dir"],
     [name |-> <<".", "w", "a", "v">>, kind |-> "file"],
     [name |-> <<".", "w", "a", "v">>, kind |-> "other"],
     [name |-> <<"w">>, kind |-> "file"],
     [name |-> <<"w">>, kind |-> "other"] >>

\* fs.promises.readdir(current, { withFileTypes: true })
ReaddirOf(tree, current) ==
  LET There(d) == [path |-> current, name |-> d.name, kind |-> d.kind] \in tree
  IN  SelectSeq(ReaddirOrder, There)

\* variant of the scan that records a file only when its stat succeeded
EntriesAfterStat_DropFailed(w, ok) ==
  IF ok THEN Append(w.entries,
                    SampleEntry(w.current, w.dirents[w.i].name, 7))
  ELSE w.entries

\* entries.push once stat has resolved (ok) or rejected: size is stat.size
\* or 0
EntriesAfterStat(w, ok) ==
  Append(w.entries,
         SampleEntry(w.current, w.dirents[w.i].name, IF ok THEN 7 ELSE 0))

\* The scan from dirent i of the current directory up to its next await:
\* directories are pushed on the stack, an audio file awaits its stat, the
\* rest is passed over; after the last dirent the next directory is popped
\* and read, or entries is returned (and the handler answers 200).
WalkAdvance(w) ==
  LET n == Len(w.dirents)
      Stops == {k \in w.i..n : /\ w.dirents[k].kind = "file"
                               /\ isAudio(w.dirents[k].name)}
      j == IF Stops = {} THEN n + 1
           ELSE CHOOSE k \in Stops : \A m \in Stops : k <= m
      IsDir(d) == d.kind = "dir"
      passed == SelectSeq(SubSeq(w.dirents, w.i, j - 1), IsDir)
      stack == w.stack \o [k \in 1..Len(passed) |->
                             w.current \o <<passed[k].name>>]
  IN  IF j <= n
        THEN [w EXCEPT !.pc = "stat", !.stack = stack, !.i = j]
      ELSE IF stack = <<>>
        THEN [w EXCEPT !.pc = "done", !.dirents = <<>>, !.i = 1,
                       !.status = 200]
      ELSE [w EXCEPT !.pc = "readdir",
                     !.current = stack[Len(stack)],
                     !.stack = SubSeq(stack, 1, Len(stack) - 1),
                     !.dirents = <<>>, !.i = 1]

\* await fs.promises.readdir resolves
WalkReaddir ==
  /\ walk.pc = "readdir"
  /\ \E w \in {[walk EXCEPT
                    !.dirents = ReaddirOf(walk.tree, walk.current),
                    !.i = 1]} :
       walk' = WalkAdvance(w)
  /\ UNCHANGED <<batch, fileReq, idCalls, manifest, hot,
                 cacheTTL, cacheMaxSize, now, fs,
                 samplesCache, metadataCache, req, win, lastClear>>

\* await fs.promises.readdir rejects (the directory cannot be read):
\* nothing catches it before the route handler, which answers 500
WalkReaddirFailed ==
  /\ walk.pc = "readdir"
  /\ walk' = [walk EXCEPT !.pc = "rejected", !.status = 500]
  /\ UNCHANGED <<batch, fileReq, idCalls, manifest, hot,
                 cacheTTL, cacheMaxSize, now, fs,
                 samplesCache, metadataCache, req, win, lastClear>>

\* await fs.promises.stat resolves (ok) or rejects
WalkStat(ok) ==
  /\ walk.pc = "stat"
  /\ \E w \in {[walk EXCEPT
                    !.entries = EntriesAfterStat(walk, ok),
                    !.statFailed = IF ok THEN walk.statFailed
                                   ELSE walk.statFailed
                                          \cup {Len(walk.entries) + 1},
                    !.i = walk.i + 1]} :
       walk' = WalkAdvance(w)
  /\ UNCHANGED <<batch, fileReq, idCalls, manifest, hot,
                 cacheTTL, cacheMaxSize, now, fs,
                 samplesCache, metadataCache, req, win, lastClear>>

\* collectSampleEntries(root) is called: stack = [root], the root is popped
WalkInit ==
  /\ CachesAtRest /\ NamesAtRest
  /\ batch = NoBatch /\ fileReq = NoFileReq
  /\ \E t \in WalkTrees :
       walk = [NoWalk EXCEPT !.pc = "readdir", !.tree = t]

WalkNext ==
  \/ WalkReaddir
  \/ WalkReaddirFailed
  \/ \E ok \in BOOLEAN : WalkStat(ok)

\* a pending readdir or stat settles
WalkSpec ==
  /\ WalkInit
  /\ [][WalkNext]_vars
  /\ WF_vars(WalkReaddir \/ WalkReaddirFailed)
  /\ WF_vars(\E ok \in BOOLEAN : WalkStat(ok))

\* ------------------------------------------------------- GET /files/*
\* A requested path is the text after /files/: whether it starts with "/"
\* and its segments.  An absolute path is the sequence of its names.
MaxSegments == 4
DotDot == <<".", ".">>
Dot == <<".">>
Segments ==
  { DotDot, Dot, <<"a", ".", "w", "a", "v">>, <<"k">>, <<"s", "x">>,
    <<"f">>, <<"e", "t", "c">>, <<"p", "a", "s", "s", "w", "d">> }
RequestPaths ==
  [abs : BOOLEAN, segs : UNION {[1..n -> Segments] : n \in 0..MaxSegments}]

\* path normalization: "." is dropped, ".." removes the name before it and
\* stays at "/" when there is none
RECURSIVE Normalize(_, _)
Normalize(base, segs) ==
  IF segs = <<>> THEN base
  ELSE LET h == Head(segs)
       IN  Normalize(IF h = DotDot
                       THEN SubSeq(base, 1, Len(base) - 1)
                     ELSE IF h = Dot THEN base
                     ELSE Append(base, h),
                     Tail(segs))

\* path.resolve(root, relative): an absolute relative starts again from "/"
PathResolve(root, rel) == Normalize(IF rel.abs THEN <<>> ELSE root, rel.segs)

\* path.join(root, rel): the two are concatenated, then normalized
PathJoin(root, rel) == Normalize(root, rel.segs)

\* String.prototype.startsWith
StartsWith(s, prefix) ==
  Len(prefix) <= Len(s) /\ SubSeq(s, 1, Len(prefix)) = prefix

rootPrefix ==
  LET r == Render(normalizedRoot)
  IN  IF r[Len(r)] = "/" THEN r ELSE r \o <<"/">>

\* variant of the router's guard that tests the prefix without separator
PassesGuard_NoSeparator(resolved) ==
  resolved = normalizedRoot
    \/ StartsWith(Render(resolved), Render(normalizedRoot))

\* the router's guard: the request goes on when this holds, else 403
PassesGuard(resolved) ==
  ~(resolved # normalizedRoot /\ ~StartsWith(Render(resolved), rootPrefix))

\* the fallback server's root, /srv/s as well, and its guard
SAMPLE_ROOT == << <<"s", "r", "v">>, <<"s">> >>
FallbackPassesGuard(full) == StartsWith(Render(full), Render(SAMPLE_ROOT))

\* What the disk holds: the root, its sibling /srv/sx and /etc/passwd are
\* there; a.wav and the directory k in the root, and the file f in the
\* sibling, may be.
FileObject(path, kind) == [path |-> path, kind |-> kind]
AlwaysThere ==
  { FileObject(<<>>, "dir"), FileObject(<< <<"s", "r", "v">> >>, "dir"),
    FileObject(normalizedRoot, "dir"),
    FileObject(<< <<"s", "r", "v">>, <<"s", "x">> >>, "dir"),
    FileObject(<< <<"e", "t", "c">> >>, "dir"),
    FileObject(<< <<"e", "t", "c">>, <<"p", "a", "s", "s", "w", "d">> >>,
               "file") }
MayBeThere ==
  { FileObject(normalizedRoot \o << <<"a", ".", "w", "a", "v">> >>, "file"),
    FileObject(normalizedRoot \o << <<"k">> >>, "dir"),
    FileObject(<< <<"s", "r", "v">>, <<"s", "x">>, <<"f">> >>, "file") }
FileSystems == {AlwaysThere \cup F : F \in SUBSET MayBeThere}

KindOf(disk, path) ==
  IF \E o \in disk : o.path = path
    THEN (CHOOSE o \in disk : o.path = path).kind
    ELSE "missing"

\* fs.existsSync
ExistsSync(disk, path) == KindOf(disk, path) # "missing"

\* variant of the isFile test that lets every existing path through
StatIsFile_Anything(disk, path) == TRUE

\* fs.statSync(path).isFile()
StatIsFile(disk, path) == KindOf(disk, path) = "file"

\* router.get('/files/*'): the handler up to stream.pipe(res)
GetFiles(rel) ==
  /\ fileReq.pc = "idle"
  /\ LET resolved == PathResolve(normalizedRoot, rel)
         r == [fileReq EXCEPT !.server = "router", !.relative = rel]
     IN  fileReq' =
           IF ~PassesGuard(resolved)
             THEN [r EXCEPT !.pc = "done", !.status = 403]
           ELSE IF \/ ~ExistsSync(fileReq.exists, resolved)
                   \/ ~StatIsFile(fileReq.exists, resolved)
             THEN [r EXCEPT !.pc = "done", !.status = 404]
           ELSE [r EXCEPT !.pc = "streaming",
                          !.headers = {"Accept-Ranges: bytes"},
                          !.stream = Some(resolved)]
  /\ UNCHANGED <<batch, walk, idCalls, manifest, hot,
                 cacheTTL, cacheMaxSize, now, fs,
                 samplesCache, metadataCache, req, win, lastClear>>

\* app.get('/files/*') of the fallback server, up to pipe(res)
FallbackGetFiles(rel) ==
  /\ fileReq.pc = "idle"
  /\ LET full == PathJoin(SAMPLE_ROOT, rel)
         r == [fileReq EXCEPT !.server = "fallback", !.relative = rel]
     IN  fileReq' =
           IF ~FallbackPassesGuard(full)
             THEN [r EXCEPT !.pc = "done", !.status = 403]
           ELSE IF ~ExistsSync(fileReq.exists, full)
             THEN [r EXCEPT !.pc = "done", !.status = 404]
           ELSE [r EXCEPT !.pc = "streaming",
                          !.headers = {"Accept-Ranges: bytes"},
                          !.stream = Some(full)]
  /\ UNCHANGED <<batch, walk, idCalls, manifest, hot,
                 cacheTTL, cacheMaxSize, now, fs,
                 samplesCache, metadataCache, req, win, lastClear>>

\* the read stream has piped the whole file into the response
StreamEnd ==
  /\ fileReq.pc = "streaming"
  /\ KindOf(fileReq.exists, fileReq.stream[1]) = "file"
  /\ fileReq' = [fileReq EXCEPT !.pc = "done", !.status = 200,
                                !.streamed = fileReq.stream]
  /\ UNCHANGED <<batch, walk, idCalls, manifest, hot,
                 cacheTTL, cacheMaxSize, now, fs,
                 samplesCache, metadataCache, req, win, lastClear>>

\* the read stream emits 'error' (the path is a directory, or the file has
\* gone or may not be opened): the router's listener answers 500; the
\* fallback server has no listener, and the unhandled event ends the
\* process
StreamError ==
  /\ fileReq.pc = "streaming"
  /\ fileReq' = IF fileReq.server = "router"
                  THEN [fileReq EXCEPT !.pc = "done", !.status = 500]
                  ELSE [fileReq EXCEPT !.pc = "crashed"]
  /\ UNCHANGED <<batch, walk, idCalls, manifest, hot,
                 cacheTTL, cacheMaxSize, now, fs,
                 samplesCache, metadataCache, req, win, lastClear>>

FileInit ==
  /\ CachesAtRest /\ NamesAtRest
  /\ batch = NoBatch /\ walk = NoWalk
  /\ \E disk \in FileSystems : fileReq = [NoFileReq EXCEPT !.exists = disk]

\* a request for some path reaches the router, or the fallback server
RouterRequest ==
  fileReq.pc = "idle" /\ \E rel \in RequestPaths : GetFiles(rel)
FallbackRequest ==
  fileReq.pc = "idle" /\ \E rel \in RequestPaths : FallbackGetFiles(rel)

\* one request is followed to its end
FileNext ==
  \/ RouterRequest
  \/ FallbackRequest
  \/ StreamEnd
  \/ StreamError

FileSpec == FileInit /\ [][FileNext]_vars

\* ------------------------------------------------------ createSampleId
MaxNameLen == 4    \* characters of a base name
MaxCalls == 2      \* calls of createSampleId that are followed
NameChars == {"A", "a", " ", "\t", "$", "."}
KickName ==
  <<"K", "i", "c", "k", " ", "D", "e", "e", "p", " ", "9", "5", "g", "m",
    ".", "w", "a", "v">>
IdNames ==
  {KickName} \cup UNION {[1..n -> NameChars] : n \in 1..MaxNameLen}
\* the root, a directory below it, and a directory of another root
IdDirs ==
  { normalizedRoot, normalizedRoot \o << <<"k", "i", "t">> >>,
    << <<"h", "o", "m", "e">> >> }
\* the base names of a later call, besides that of the first call
LaterNames == { <<"a", ".", "A">>, <<"A", " ", "a">> }

\* createSampleId(fullPath) is called and returns
CallCreateSampleId(fullPath) ==
  /\ Len(idCalls) < MaxCalls
  /\ idCalls' = Append(idCalls, [fullPath |-> fullPath,
                                 id |-> createSampleId(fullPath)])
  /\ UNCHANGED <<batch, walk, fileReq, manifest, hot, caches>>

FirstCall ==
  /\ idCalls = <<>>
  /\ \E dir \in IdDirs, name \in IdNames :
       CallCreateSampleId(dir \o <<name>>)

LaterCall ==
  /\ idCalls # <<>>
  /\ \E dir \in IdDirs,
        name \in LaterNames \cup {Basename(idCalls[1].fullPath)} :
       CallCreateSampleId(dir \o <<name>>)

IdInit ==
  /\ CachesAtRest
  /\ batch = NoBatch /\ walk = NoWalk /\ fileReq = NoFileReq
  /\ idCalls = NoIdCalls /\ manifest = NoManifest /\ hot = NoHot

IdNext == FirstCall \/ LaterCall

IdSpec == IdInit /\ [][IdNext]_vars

\* --------------------------------------------------------------- GET /
MaxManifest == 3   \* entries that loadEntries can return to the handler
ManifestNames ==
  { <<"a", ".", "w", "a", "v">>, <<"A", ".", "w", "a", "v">>,
    <<"b", ".", "w", "a", "v">>,
    <<"_", "b", "a", "s", "e", ".", "w", "a", "v">> }
ManifestEntryPool ==
  { SampleEntry(dir, name, 7) :
      dir \in { <<>>, << <<"k", "i", "t">> >> }, name \in ManifestNames }
\* what loadEntries can return: each file is listed once
ManifestInputs ==
  { es \in UNION {[1..n -> ManifestEntryPool] : n \in 0..MaxManifest} :
      \A j, k \in 1..Len(es) : j # k => es[j] # es[k] }

\* toRelativePosix: the names of the relative path joined by "/"
RelativePosix(relativePath) ==
  IF relativePath = <<>> THEN <<>> ELSE Tail(Slashed(relativePath))

\* resolveBaseUrl(req) of the standalone server, port 5432
BaseUrl ==
  <<"h", "t", "t", "p", ":", "/", "/", "l", "o", "c", "a", "l", "h", "o",
    "s", "t", ":", "5", "4", "3", "2", "/", "f", "i", "l", "e", "s", "/">>
BaseKey == <<"_", "b", "a", "s", "e">>

\* variant of the assignment that keeps a key it already has
Assign_KeepFirst(payload, key, value) ==
  [k \in DOMAIN payload \cup {key} |->
     IF k \in DOMAIN payload THEN payload[k] ELSE value]

\* payload[key] = value
Assign(payload, key, value) ==
  [k \in DOMAIN payload \cup {key} |->
     IF k = key THEN value ELSE payload[k]]

\* for (const entry of entries) payload[entry.id] = entry.relativePath
RECURSIVE PayloadAfter(_, _)
PayloadAfter(payload, entries) ==
  IF entries = <<>> THEN payload
  ELSE PayloadAfter(Assign(payload, Head(entries).id,
                           RelativePosix(Head(entries).relativePath)),
                    Tail(entries))

\* await loadEntries() resolves with entries: the payload is built from
\* { _base: base } and sent
ManifestLoaded(entries) ==
  /\ manifest.pc = "loading"
  /\ manifest' =
       [manifest EXCEPT
          !.pc = "done", !.entries = entries, !.status = 200,
          !.payload = PayloadAfter([k \in {BaseKey} |-> BaseUrl], entries)]
  /\ UNCHANGED <<batch, walk, fileReq, idCalls, hot, caches>>

\* await loadEntries() rejects: the catch answers 500
ManifestLoadFailed ==
  /\ manifest.pc = "loading"
  /\ manifest' = [manifest EXCEPT !.pc = "done", !.status = 500]
  /\ UNCHANGED <<batch, walk, fileReq, idCalls, hot, caches>>

\* GET / has been received and awaits loadEntries()
ManifestInit ==
  /\ CachesAtRest
  /\ batch = NoBatch /\ walk = NoWalk /\ fileReq = NoFileReq
  /\ idCalls = NoIdCalls /\ hot = NoHot
  /\ manifest = [NoManifest EXCEPT !.pc = "loading"]

ManifestNext ==
  \/ \E entries \in ManifestInputs : ManifestLoaded(entries)
  \/ ManifestLoadFailed

ManifestSpec == ManifestInit /\ [][ManifestNext]_vars

\* ---------------------------------------------------------- hot reload
\* The three entry points build a router; hot.option is the enableHotReload
\* of the options they are given, hot.watchers the FSWatcher objects that
\* fs.watch returned (a closed watcher stays one), hot.registered how many
\* of them the router's watchers array holds, hot.watchCalls the calls of
\* fs.watch that were made, hot.viteWatch whether the plugin has
\* registered its handlers on server.watcher, hot.events the number of
\* calls of the fs.watch callback, hot.sent the messages of server.ws,
\* hot.listening whether the HTTP server accepts requests and hot.closes
\* the number of its 'close' events.
MaxEvents == 2     \* watcher callbacks, and messages, that are followed
EntryPoints == {"app", "standalone", "vite"}
WatcherKinds == {"add", "unlink", "change", "addDir", "unlinkDir"}
HotFiles ==
  { normalizedRoot \o << <<"a", ".", "w", "a", "v">> >>,
    normalizedRoot \o << <<"k", "i", "t">>, <<"a", ".", "w", "a", "v">> >>,
    << <<"s", "r", "v">>, <<"s", "x">>, <<"f">> >>,
    << <<"e", "t", "c">>, <<"p", "a", "s", "s", "w", "d">> >> }
\* the handler that runs all requests in this specification
HotProcs == {1}

\* the enableHotReload that the entry point passes to createSamplerRouter
RouterHotReload(entry, option) ==
  IF entry = "standalone" THEN option ELSE FALSE

\* one call of fs.watch and the watcher it returns
WatchCall(recursive, threw) == [recursive |-> recursive, threw |-> threw]
Watcher(recursive) == [recursive |-> recursive, open |-> TRUE]

\* variant of the watcher set-up that has no second attempt
RouterWatchers_NoFallback(enableHotReload, recursiveOk, plainOk) ==
  IF ~enableHotReload
    THEN [ok |-> TRUE, watchers |-> <<>>, calls |-> <<>>]
  ELSE IF recursiveOk
    THEN [ok |-> TRUE, watchers |-> <<Watcher(TRUE)>>,
          calls |-> <<WatchCall(TRUE, FALSE)>>]
  ELSE [ok |-> TRUE, watchers |-> <<>>,
        calls |-> <<WatchCall(TRUE, TRUE)>>]

\* if (enableHotReload) { try { fs.watch(root, { recursive: true }, ...) }
\* catch { fs.watch(root, ...) } }: each fs.watch returns or throws, and
\* nothing catches what the second throws
RouterWatchers(enableHotReload, recursiveOk, plainOk) ==
  IF ~enableHotReload
    THEN [ok |-> TRUE, watchers |-> <<>>, calls |-> <<>>]
  ELSE IF recursiveOk
    THEN [ok |-> TRUE, watchers |-> <<Watcher(TRUE)>>,
          calls |-> <<WatchCall(TRUE, FALSE)>>]
  ELSE IF plainOk
    THEN [ok |-> TRUE, watchers |-> <<Watcher(FALSE)>>,
          calls |-> <<WatchCall(TRUE, TRUE), WatchCall(FALSE, FALSE)>>]
  ELSE [ok |-> FALSE, watchers |-> <<>>,
        calls |-> <<WatchCall(TRUE, TRUE), WatchCall(FALSE, TRUE)>>]

\* createSamplerApp, createStandaloneServer or configureServer builds its
\* router; the plugin then registers its handlers when the option is set
CreateEntryPoint(entry, option, recursiveOk, plainOk) ==
  /\ hot.pc = "idle"
  /\ LET w == RouterWatchers(RouterHotReload(entry, option),
                             recursiveOk, plainOk)
     IN  hot' = [hot EXCEPT
                   !.pc = IF w.ok THEN "created" ELSE "failed",
                   !.entry = entry, !.option = option,
                   !.watchers = w.watchers, !.watchCalls = w.calls,
                   !.registered = Len(w.watchers), !.listening = w.ok,
                   !.viteWatch = (w.ok /\ entry = "vite" /\ option)]
  /\ UNCHANGED <<batch, walk, fileReq, idCalls, manifest, caches>>

\* variant in which a closed watcher goes on delivering events
Watches_EvenClosed(w, file) ==
  /\ Len(file) > Len(normalizedRoot)
  /\ SubSeq(file, 1, Len(normalizedRoot)) = normalizedRoot
  /\ w.recursive \/ Len(file) = Len(normalizedRoot) + 1

\* the events of file that watcher w delivers: those below the root, and
\* without recursion only those of the root's own children
Watches(w, file) ==
  /\ w.open
  /\ Len(file) > Len(normalizedRoot)
  /\ SubSeq(file, 1, Len(normalizedRoot)) = normalizedRoot
  /\ w.recursive \/ Len(file) = Len(normalizedRoot) + 1

\* variant of the fs.watch callback that clears nothing
WatcherEvent_NoClear(k, file) ==
  /\ hot.pc = "created" /\ hot.events < MaxEvents
  /\ k \in 1..Len(hot.watchers) /\ Watches(hot.watchers[k], file)
  /\ hot' = [hot EXCEPT !.events = hot.events + 1]
  /\ UNCHANGED <<batch, walk, fileReq, idCalls, manifest, caches>>

\* the callback of fs.watch: () => invalidateCaches()
WatcherEvent(k, file) ==
  /\ hot.pc = "created" /\ hot.events < MaxEvents
  /\ k \in 1..Len(hot.watchers) /\ Watches(hot.watchers[k], file)
  /\ ClearBoth
  /\ hot' = [hot EXCEPT !.events = hot.events + 1]
  /\ UNCHANGED <<batch, walk, fileReq, idCalls, manifest>>

\* watcher.on('error', () => watcher.close())
WatcherError(k) ==
  /\ hot.pc = "created"
  /\ k \in 1..Len(hot.watchers) /\ hot.watchers[k].open
  /\ hot' = [hot EXCEPT !.watchers[k].open = FALSE]
  /\ UNCHANGED <<batch, walk, fileReq, idCalls, manifest, caches>>

\* variant of notify that sends before it invalidates
Notify_SendFirst(file) ==
  /\ ClearBoth
  /\ hot' = [hot EXCEPT !.sent =
               Append(@, [event |-> "strudel-sampler:update",
                          file |-> file,
                          cleared |-> ~samplesCache.full
                                        /\ ~metadataCache.full])]

\* notify(file): routerResult.invalidateCaches(), then server.ws.send;
\* cleared records whether both slots were empty when the message left
Notify(file) ==
  /\ ClearBoth
  /\ hot' = [hot EXCEPT !.sent =
               Append(@, [event |-> "strudel-sampler:update",
                          file |-> file,
                          cleared |-> ~samplesCache'.full
                                        /\ ~metadataCache'.full])]

\* server.watcher emits add, unlink or change for file and the handler
\* finds that file.startsWith(resolved.sampleRoot)
ViteEvent(kind, file) ==
  /\ hot.pc = "created" /\ hot.viteWatch /\ Len(hot.sent) < MaxEvents
  /\ kind \in {"add", "unlink", "change"}
  /\ StartsWith(Render(file), Render(normalizedRoot))
  /\ Notify(file)
  /\ UNCHANGED <<batch, walk, fileReq, idCalls, manifest>>

\* the requests and the environment of the router once it is built
HotRequests ==
  /\ hot.pc = "created"
  /\ \/ \E p \in HotProcs : GetEntries(p)
     \/ \E p \in HotProcs : GetMetadata(p)
     \/ \E p \in HotProcs : Readdir(p)
     \/ \E p \in HotProcs : Stat(p)
     \/ \E p \in HotProcs : ParseFile(p)
     \/ InvalidateCaches
     \/ Tick
     \/ \E f \in Files : FsAdd(f)
     \/ \E f \in Files : FsRemove(f)

HotInit ==
  /\ cacheTTL = PosTTL
  /\ cacheMaxSize \in MaxSizeValues
  /\ now = 0 /\ fs = {}
  /\ samplesCache = Empty /\ metadataCache = Empty
  /\ req = [p \in Procs |-> Idle]
  /\ win = [p \in Procs |-> 0]
  /\ lastClear = "none"
  /\ batch = NoBatch /\ walk = NoWalk /\ fileReq = NoFileReq
  /\ idCalls = NoIdCalls /\ manifest = NoManifest /\ hot = NoHot

HotNext ==
  \/ \E entry \in EntryPoints, option, recursiveOk, plainOk \in BOOLEAN :
       CreateEntryPoint(entry, option, recursiveOk, plainOk)
  \/ \E k \in 1..Len(hot.watchers), file \in HotFiles : WatcherEvent(k, file)
  \/ \E k \in 1..Len(hot.watchers) : WatcherError(k)
  \/ \E kind \in WatcherKinds, file \in HotFiles : ViteEvent(kind, file)
  \/ HotRequests

HotSpec == HotInit /\ [][HotNext]_vars

\* ------------------------------------------------------------- dispose
MaxCloses == 2     \* 'close' events of one HTTP server that are followed

\* variant of dispose that empties the array and closes nothing
Dispose_OnlyForget(h) == [h EXCEPT !.registered = 0]

\* dispose(): close every watcher of the array, then watchers.length = 0
Dispose(h) ==
  [h EXCEPT !.watchers =
              [k \in 1..Len(h.watchers) |->
                 IF k <= h.registered
                   THEN [h.watchers[k] EXCEPT !.open = FALSE]
                   ELSE h.watchers[k]],
            !.registered = 0]

\* the HTTP server emits 'close', which it does once its connections have
\* ended: the standalone server's listener runs invalidateCaches and
\* dispose, the plugin's (a once listener) runs dispose
ServerClose ==
  /\ hot.pc = "created" /\ hot.listening /\ hot.closes < MaxCloses
  /\ \A p \in HotProcs : ~InFlight(p)
  /\ \/ /\ hot.entry = "standalone"
        /\ ClearBoth
        /\ hot' = [Dispose(hot) EXCEPT !.listening = FALSE,
                                       !.closes = hot.closes + 1]
     \/ /\ hot.entry = "vite"
        /\ hot' = [(IF hot.closes = 0 THEN Dispose(hot) ELSE hot)
                     EXCEPT !.listening = FALSE, !.closes = hot.closes + 1]
        /\ UNCHANGED caches
  /\ UNCHANGED <<batch, walk, fileReq, idCalls, manifest>>

\* the owner of the HTTP server calls listen again after a close
Relisten ==
  /\ hot.pc = "created" /\ ~hot.listening /\ hot.closes > 0
  /\ hot.closes < MaxCloses
  /\ hot' = [hot EXCEPT !.listening = TRUE]
  /\ UNCHANGED <<batch, walk, fileReq, idCalls, manifest, caches>>

DisposeNext ==
  \/ \E entry \in EntryPoints, option, recursiveOk, plainOk \in BOOLEAN :
       CreateEntryPoint(entry, option, recursiveOk, plainOk)
  \/ \E k \in 1..Len(hot.watchers), file \in HotFiles : WatcherEvent(k, file)
  \/ \E k \in 1..Len(hot.watchers) : WatcherError(k)
  \/ hot.listening /\ HotRequests
  \/ ServerClose
  \/ Relisten

DisposeSpec == HotInit /\ [][DisposeNext]_vars


\* ------------------------------------------------------ shared notions
\* the slot holds a value whose expiry lies in the future
Unexpired(c) == cacheTTL > 0 /\ c.full /\ now < c.expires

\* handler p starts a request of the given kind in this step
Starts(p, kind) ==
  /\ req[p].pc \in {"idle", "done"}
  /\ req'[p] # req[p]
  /\ req'[p].op = kind

\* loadEntries is called in this step (by a listEntries request or by the
\* metadata factory) and has to scan
CallScans == \E p \in Procs : req[p].pc # "readdir" /\ req'[p].pc = "readdir"

\* handler p's scan completes in this step; Scanned(p) is what it built
ScanCompletes(p) ==
  /\ req[p].pc \in {"readdir", "stat"}
  /\ req'[p].pc \notin {"readdir", "stat"}
Scanned(p) == IF req[p].pc = "stat" THEN req[p].dirents ELSE <<>>

\* ------------------------------------------------------------------- C1
\* C1: get serves the stored value only if ttl > 0, a value is stored and
\* now < expiry; in every other case (now = expiry and later included) it
\* invokes the factory, which for listEntries is the directory scan.  The
\* expiry of a stored value is the time its factory completed plus ttl.
C1_Step(p) ==
  /\ Starts(p, "entries") =>
       /\ req'[p].hit <=> Unexpired(samplesCache)
       /\ ~req'[p].hit <=> req'[p].pc = "readdir"
  /\ Starts(p, "metadata") =>
       /\ req'[p].hit <=> Unexpired(metadataCache)
       /\ ~req'[p].hit /\ ~Unexpired(samplesCache) => req'[p].pc = "readdir"

C1_Expiry ==
  /\ samplesCache' # samplesCache /\ samplesCache'.full =>
       samplesCache'.expires = now + cacheTTL
  /\ metadataCache' # metadataCache /\ metadataCache'.full =>
       metadataCache'.expires = now + cacheTTL

C1_HitOnlyIfUnexpired ==
  [][(\A p \in Procs : C1_Step(p)) /\ C1_Expiry]_vars

\* a listEntries call that started exactly at now = expiry is scanning (the
\* other handlers never ran, so the slot is this handler's earlier store)
C1_Witness ==
  \E p \in Procs :
    /\ req[p].pc = "readdir" /\ req[p].op = "entries"
    /\ \A q \in Procs \ {p} : req[q].pc = "idle"
    /\ cacheTTL > 0 /\ samplesCache.full /\ samplesCache.expires = now

\* ------------------------------------------------------------------- C2
\* C2: a get that finds an unexpired value returns exactly that value,
\* does not invoke the factory and leaves the slot, expiry included, as
\* it was.
C2_Step(p) ==
  /\ Starts(p, "entries") /\ Unexpired(samplesCache) =>
       /\ req'[p].pc = "done" /\ req'[p].hit
       /\ req'[p].ret = samplesCache.value
       /\ samplesCache' = samplesCache
  /\ Starts(p, "metadata") /\ Unexpired(metadataCache) =>
       /\ req'[p].pc = "done" /\ req'[p].hit
       /\ req'[p].ret = metadataCache.value
       /\ metadataCache' = metadataCache

C2_HitLeavesSlot == [][\A p \in Procs : C2_Step(p)]_vars

\* a request served from a slot stored at an earlier time
C2_Witness ==
  \E p \in Procs :
    /\ req[p].pc = "done" /\ req[p].op = "entries" /\ req[p].hit
    /\ req[p].ret # <<>> /\ samplesCache.full
    /\ samplesCache.value = req[p].ret
    /\ samplesCache.expires < now + cacheTTL /\ now < samplesCache.expires

\* ------------------------------------------------------------------- C3
\* C3 as stated: a second listEntries call of a handler, made inside the
\* TTL window of its first call with no file system change and no
\* invalidation in between, does not scan and returns the same sequence.
Abs(n) == IF n < 0 THEN 0 - n ELSE n

C3_Original ==
  [][\A p \in Procs :
       (req[p].op = "entries" /\ now < Abs(win[p]) /\ Starts(p, "entries"))
         => (req'[p].pc = "done" /\ req'[p].hit
             /\ req'[p].ret = req[p].ret)]_vars

\* C3 amended: the same, provided the first result had no more than
\* cacheMaxSize entries (or cacheMaxSize = 0) and no other request stored
\* a scan in between.
C3_Amended ==
  [][\A p \in Procs :
       (/\ req[p].op = "entries" /\ now < win[p]
        /\ ~(cacheMaxSize > 0 /\ Len(req[p].ret) > cacheMaxSize)
        /\ Starts(p, "entries"))
         => (req'[p].pc = "done" /\ req'[p].hit
             /\ req'[p].ret = req[p].ret)]_vars

\* the only handler that ever ran was served its own earlier scan
C3_Witness ==
  \E p \in Procs :
    /\ req[p].pc = "done" /\ req[p].op = "entries" /\ req[p].hit
    /\ req[p].ret # <<>> /\ req[p].ret = Listing(fs) /\ now < win[p]
    /\ \A q \in Procs \ {p} : req[q].pc = "idle"

\* ------------------------------------------------------------------- C4
\* the result of a scan is the content of the root at its readdir, which
\* comes after the call started
FreshScan ==
  \A p \in Procs :
    /\ req[p].pc = "readdir" /\ req'[p].pc # "readdir" =>
         IF req'[p].pc = "stat" THEN req'[p].dirents = Listing(fs)
         ELSE fs = {}
    /\ ScanCompletes(p) /\ req[p].op = "entries" =>
         req'[p].pc = "done" /\ req'[p].ret = Scanned(p)

\* C4 as stated: the first listEntries call after invalidateCaches scans
\* afresh, TTL expired or not, so its result has the files added before.
C4_Original ==
  [][/\ lastClear \in {"inv", "inv_stored"} /\ lastClear' = "none"
          => CallScans
     /\ FreshScan]_vars

\* C4 amended: it does so unless a scan that was in flight at the
\* invalidation has stored its result before the call starts.
C4_Amended ==
  [][/\ lastClear = "inv" /\ lastClear' = "none" => CallScans
     /\ FreshScan]_vars

\* at one instant: a scan saw an empty root, a later call scanned again
\* and saw the file added since
C4_Witness ==
  \E p, q \in Procs :
    /\ now = 0 /\ cacheTTL > 0 /\ lastClear = "none"
    /\ req[q].pc = "done" /\ req[q].op = "entries" /\ ~req[q].hit
    /\ req[q].ret = <<>>
    /\ req[p].pc = "done" /\ req[p].op = "entries" /\ ~req[p].hit
    /\ req[p].ret # <<>> /\ req[p].ret = Listing(fs)
    /\ samplesCache.full /\ samplesCache.value = req[p].ret

\* ------------------------------------------------------------------- C5
\* C5: with cacheTTL = 0 no slot ever holds a value and no request is
\* served from a slot.
C5_NoCachingAtZero ==
  cacheTTL = 0 =>
    /\ ~samplesCache.full /\ ~metadataCache.full
    /\ \A p \in Procs : ~req[p].hit

C5_Witness ==
  /\ cacheTTL = 0
  /\ \E p, q \in Procs :
       /\ req[p].pc = "done" /\ req[p].op = "entries" /\ req[p].ret # <<>>
       /\ req[q].pc = "done" /\ req[q].op = "metadata" /\ req[q].ret # <<>>

\* ------------------------------------------------------------------- C6
\* what C6 says of the step in which a listEntries call returns its scan
C6_Return(p, needTTL) ==
  (ScanCompletes(p) /\ req[p].op = "entries" /\ cacheMaxSize > 0) =>
    /\ req'[p].ret = Scanned(p)
    /\ Len(Scanned(p)) > cacheMaxSize => ~samplesCache'.full
    /\ (Len(Scanned(p)) = cacheMaxSize /\ (needTTL => cacheTTL > 0)) =>
         (samplesCache'.full /\ samplesCache'.value = Scanned(p))

\* C6 as stated: a scan of more than cacheMaxSize entries is returned whole
\* and leaves the slot empty, the next listEntries call rescans, and a scan
\* of exactly cacheMaxSize entries stays in the slot.
C6_Original ==
  [][/\ \A p \in Procs : C6_Return(p, FALSE)
     /\ lastClear \in {"ovf", "ovf_stored"} /\ lastClear' = "none"
          => CallScans]_vars

\* C6 amended: the next call rescans unless a scan in flight stored its
\* result in between, and a scan of exactly cacheMaxSize entries stays in
\* the slot when cacheTTL > 0.
C6_Amended ==
  [][/\ \A p \in Procs : C6_Return(p, TRUE)
     /\ lastClear = "ovf" /\ lastClear' = "none" => CallScans]_vars

\* a call has just returned more than cacheMaxSize entries
C6_Witness ==
  \E p \in Procs :
    /\ req[p].pc = "done" /\ req[p].op = "entries" /\ ~req[p].hit
    /\ cacheMaxSize > 0 /\ Len(req[p].ret) > cacheMaxSize
    /\ cacheTTL > 0 /\ lastClear = "ovf" /\ ~samplesCache.full

\* ------------------------------------------------------------------- C7
\* C7: with cacheMaxSize > 0 and cacheTTL > 0, a listMetadata call that
\* produced more than cacheMaxSize records leaves the metadata slot empty.
C7_OversizeBatchNotCached ==
  [][\A p \in Procs :
       (/\ req[p].pc = "parse" /\ req'[p].pc = "done"
        /\ cacheMaxSize > 0 /\ cacheTTL > 0
        /\ Len(req'[p].ret) > cacheMaxSize)
         => ~metadataCache'.full]_vars

\* a listMetadata call has returned more than cacheMaxSize records and the
\* metadata slot holds them, unexpired
C7_Witness ==
  \E p \in Procs :
    /\ req[p].pc = "done" /\ req[p].op = "metadata" /\ ~req[p].hit
    /\ cacheMaxSize > 0 /\ Len(req[p].ret) > cacheMaxSize
    /\ Unexpired(metadataCache) /\ metadataCache.value = req[p].ret

\* ------------------------------------------------------------------- C8
\* what a store and a return are made of: the samples slot changes to a
\* value only when a scan completes, the value being everything that scan
\* read, and a scanning listEntries call returns its own complete scan
C8_Step ==
  /\ (samplesCache' # samplesCache /\ samplesCache'.full) =>
       \E p \in Procs :
         ScanCompletes(p) /\ samplesCache'.value = Scanned(p)
  /\ \A p \in Procs :
       (ScanCompletes(p) /\ req[p].op = "entries") =>
         (req'[p].pc = "done" /\ req'[p].ret = Scanned(p))

C9_LostClear ==
  [][/\ \A p \in Procs :
          (/\ ScanCompletes(p) /\ lastClear = "inv" /\ cacheTTL > 0
           /\ ~(cacheMaxSize > 0 /\ Len(Scanned(p)) > cacheMaxSize))
            => /\ samplesCache'.full
               /\ samplesCache'.value = Scanned(p)
               /\ samplesCache'.expires = now + cacheTTL
               /\ lastClear' = "inv_stored"
     /\ (lastClear = "inv_stored" /\ Unexpired(samplesCache)
         /\ lastClear' = "none")
          => /\ ~CallScans
             /\ \A p \in Procs :
                  /\ Starts(p, "entries") =>
                       req'[p].hit /\ req'[p].ret = samplesCache.value
                  /\ Starts(p, "metadata") /\ req'[p].pc = "parse" =>
                       req'[p].entries = samplesCache.value]_vars

\* the slot serves a pre-invalidation scan that no longer matches the root
C9_Witness ==
  /\ lastClear = "inv_stored" /\ Unexpired(samplesCache)
  /\ samplesCache.value # Listing(fs)

\* ------------------------------------------------------------------ C10
\* every listEntries call that returns in this step returns the audio
\* files now in the root
ReturnsCurrent ==
  \A p \in Procs :
    (req[p].pc # "done" /\ req'[p].pc = "done" /\ req'[p].op = "entries")
      => req'[p].ret = Listing(fs')

\* nothing stale is left: what the samples slot would serve, and what every
\* scan in flight has read, is the content of the root
Converged ==
  /\ IsLive(samplesCache) => samplesCache.value = Listing(fs)
  /\ \A p \in Procs : req[p].pc = "stat" => req[p].dirents = Listing(fs)

\* C10: if the root stops changing and the samples slot is emptied or
\* expires once more whenever it holds a value, then from some point on
\* nothing stale is left and every listEntries call returns the files in
\* the root.
C10_Convergence ==
  (<>[][fs' = fs]_vars /\ []<>(~Unexpired(samplesCache)))
    => (<>[]Converged /\ <>[][ReturnsCurrent]_vars)

\* a handler was served a list that a later store has replaced, and the
\* slot now holds the files in the root
C10_Witness ==
  \E p \in Procs :
    /\ req[p].pc = "done" /\ req[p].op = "entries" /\ req[p].hit
    /\ win[p] < 0 /\ req[p].ret # Listing(fs)
    /\ Unexpired(samplesCache) /\ samplesCache.value = Listing(fs)

\* ------------------------------------------------------------------ C11
\* a listEntries call that misses while another scan is in flight starts a
\* scan of its own, a scanning call returns its own scan, and (where
\* stores holds) the slot holds the scan that has just completed
C11_Step(stores) ==
  \A p \in Procs :
    /\ (/\ Starts(p, "entries") /\ ~Unexpired(samplesCache)
        /\ \E q \in Procs \ {p} : req[q].pc \in {"readdir", "stat"})
         => req'[p].pc = "readdir"
    /\ (ScanCompletes(p) /\ req[p].op = "entries") =>
         req'[p].ret = Scanned(p)
    /\ (ScanCompletes(p) /\ stores[p]) =>
         /\ samplesCache'.full
         /\ samplesCache'.value = Scanned(p)
         /\ samplesCache'.expires = now + cacheTTL

\* C11 as stated: concurrent misses each run the factory and return their
\* own result, and the slot holds the result of the one that completed
\* last.
C11_Original == [][C11_Step([p \in Procs |-> TRUE])]_vars

\* C11 amended: the slot holds the result of the one that completed last
\* when cacheTTL > 0 and that result is not over a positive cacheMaxSize;
\* otherwise the slot is left empty.
C11_Amended ==
  [][/\ C11_Step([p \in Procs |->
                   /\ cacheTTL > 0
                   /\ ~(cacheMaxSize > 0 /\ Len(Scanned(p)) > cacheMaxSize)])
     /\ \A p \in Procs :
          (/\ ScanCompletes(p)
           /\ \/ cacheTTL = 0
              \/ (cacheMaxSize > 0 /\ Len(Scanned(p)) > cacheMaxSize))
            => ~samplesCache'.full]_vars

\* two calls missed together and read different listings; the one that
\* completed last has replaced the other's result in the slot
C11_Witness ==
  \E p, q \in Procs :
    /\ p # q /\ cacheTTL > 0 /\ win[p] < 0
    /\ req[p].pc = "done" /\ req[p].op = "entries" /\ ~req[p].hit
    /\ req[q].pc = "done" /\ req[q].op = "entries" /\ ~req[q].hit
    /\ req[p].ret # req[q].ret
    /\ samplesCache.full /\ samplesCache.value = req[q].ret

\* ------------------------------------------------------------------ C12
\* C12: the step of invalidateCaches (no request moves, the clock and the
\* files stay as they are) leaves both slots empty: no state has one slot
\* cleared by it and the other still full.
C12_BothCleared ==
  [][(lastClear' = "inv" /\ req' = req /\ now' = now /\ fs' = fs)
       => (~samplesCache'.full /\ ~metadataCache'.full)]_vars

\* invalidateCaches has just run after a metadata batch had filled both
\* slots, and both are empty
C12_Witness ==
  /\ lastClear = "inv" /\ cacheTTL > 0 /\ cacheMaxSize = 0 /\ now = 0
  /\ ~samplesCache.full /\ ~metadataCache.full
  /\ \E p \in Procs :
       /\ req[p].pc = "done" /\ req[p].op = "metadata" /\ ~req[p].hit
       /\ req[p].ret # <<>>

\* ------------------------------------------------------------------ C13
\* C13: whichever extractions fail, the records pushed so far are those of
\* the first entries, in order, each with the id, the relativePath (as
\* path) and the size of its entry; the batch returned has one record per
\* entry.
C13_OneRecordPerEntry ==
  /\ Len(batch.results) = batch.i - 1
  /\ batch.pc = "done" => Len(batch.results) = Len(batch.entries)
  /\ \A k \in 1..Len(batch.results) :
       /\ k <= Len(batch.entries)
       /\ batch.results[k].id = batch.entries[k].id
       /\ batch.results[k].path = batch.entries[k].relativePath
       /\ batch.results[k].size = batch.entries[k].size

\* a batch of MaxBatch entries has been returned, of which the extraction of
\* some failed and of others did not
C13_Witness ==
  /\ batch.pc = "done" /\ Len(batch.results) = MaxBatch
  /\ batch.failed # {} /\ batch.failed # 1..MaxBatch
  /\ batch.entries[1].id # batch.entries[MaxBatch].id

\* ------------------------------------------------------------------ C14
\* the extension of a base name without its dot: what follows the last "."
\* when that "." is not the first character and something follows it
FormatOfName(s) ==
  IF \E k \in 2..(Len(s) - 1) :
       s[k] = "." /\ \A j \in (k + 1)..Len(s) : s[j] # "."
    THEN LET k == CHOOSE k \in 2..(Len(s) - 1) :
                    s[k] = "." /\ \A j \in (k + 1)..Len(s) : s[j] # "."
         IN  Some([j \in 1..(Len(s) - k) |-> s[k + j]])
    ELSE Null

\* C14: the record of an entry whose extraction failed has no duration, no
\* sampleRate, no channels and the extension of the file without its dot
\* as format; the factory goes on with the next entry and returns.
C14_DegradedRecord ==
  /\ batch.pc \in {"idle", "parse", "done"}
  /\ batch.pc = "parse" => batch.i <= Len(batch.entries)
  /\ \A k \in batch.failed :
       /\ k <= Len(batch.results)
       /\ batch.results[k].duration = Null
       /\ batch.results[k].sampleRate = Null
       /\ batch.results[k].channels = Null
       /\ batch.results[k].format =
            FormatOfName(batch.entries[k].relativePath[
                           Len(batch.entries[k].relativePath)])

\* the extraction of the first entry failed, the factory went on and has
\* returned; the degraded record has the extension, as spelled, as format
C14_Witness ==
  /\ batch.pc = "done" /\ Len(batch.entries) = MaxBatch
  /\ 1 \in batch.failed /\ MaxBatch \notin batch.failed
  /\ batch.results[1].format = Some(<<"W", "A", "V">>)
  /\ batch.results[MaxBatch].duration # Null

\* ------------------------------------------------------------------ C15
\* C15: a directory that cannot be read is passed over; no error reaches
\* the caller of listEntries and the request is not answered with an error.
C15_UnreadableDirSkipped ==
  walk.pc # "rejected" /\ walk.status \in {0, 200}

\* the scan had found an entry in the root when a directory below it could
\* not be read: the call is rejected and the request answered 500
C15_Witness ==
  /\ walk.pc = "rejected" /\ walk.status = 500
  /\ walk.current # <<>> /\ walk.entries # <<>>

\* ------------------------------------------------------------------ C16
\* the regular files of the tree whose name ends, whatever the case of its
\* letters, in one of the six extensions after at least one other character
AudioSuffixes ==
  { <<".", "m", "p", "3">>, <<".", "w", "a", "v">>, <<".", "o", "g", "g">>,
    <<".", "f", "l", "a", "c">>, <<".", "m", "4", "a">>,
    <<".", "a", "i", "f", "f">> }
HasAudioSuffix(s) ==
  \E x \in AudioSuffixes :
    /\ Len(s) > Len(x)
    /\ \A k \in 1..Len(x) : Lower(s[Len(s) - Len(x) + k]) = x[k]
AudioFilesOf(tree) ==
  {o \in tree : o.kind = "file" /\ HasAudioSuffix(o.name)}

\* C16: an audio file whose stat failed has its entry all the same, with
\* size 0, and the scan returns as many entries as there are audio files.
C16_StatFailureKeepsEntry ==
  /\ \A k \in walk.statFailed :
       k <= Len(walk.entries) /\ walk.entries[k].size = 0
  /\ walk.pc = "done" =>
       Len(walk.entries) = Cardinality(AudioFilesOf(walk.tree))

\* the stat of the first audio file failed, the scan went on and has
\* returned both files
C16_Witness ==
  /\ walk.pc = "done" /\ Len(walk.entries) = 2
  /\ walk.statFailed = {1}
  /\ walk.entries[1].size = 0 /\ walk.entries[2].size > 0

\* ------------------------------------------------------------------ C17
\* the scan has returned one entry per audio file of the tree and nothing
\* else
ScanIsExact ==
  /\ Len(walk.entries) = Cardinality(AudioFilesOf(walk.tree))
  /\ {walk.entries[k].relativePath : k \in 1..Len(walk.entries)}
       = {o.path \o <<o.name>> : o \in AudioFilesOf(walk.tree)}

\* C17: when no directory fails to be read the scan returns, and what it
\* returns is exactly the audio files of the tree, each once.  (A scan that
\* is never rejected returns: every scan is in the end rejected or done.)
C17_ExactlyTheAudioFiles ==
  /\ [](walk.pc = "done" => ScanIsExact)
  /\ <>(walk.pc = "rejected" \/ walk.pc = "done")

\* the scan has returned the one audio file of the tree, spelled A.WAV and
\* two directories below the root, and not the regular file a.txt
C17_Witness ==
  /\ walk.pc = "done" /\ Len(walk.entries) = 1
  /\ walk.entries[1].relativePath =
       << <<"k">>, <<"l">>, <<"A", ".", "W", "A", "V">> >>
  /\ \E o \in walk.tree :
       o.kind = "file" /\ o.name = <<"a", ".", "t", "x", "t">>

\* ------------------------------------------------------------------ C18
\* path lies below root: root's names followed by at least one more
IsUnder(path, root) ==
  Len(path) > Len(root) /\ SubSeq(path, 1, Len(root)) = root

\* C18: the router opens a file for streaming only if the requested path,
\* resolved against the root, lies strictly inside the root; a request
\* whose path resolves outside the root is answered 403 and nothing is
\* opened or sent.
C18_OnlyInsideRootServed ==
  fileReq.server = "router" =>
    LET resolved == PathResolve(normalizedRoot, fileReq.relative)
    IN  /\ fileReq.stream # Null =>
             IsUnder(resolved, normalizedRoot) /\ fileReq.stream = Some(resolved)
        /\ fileReq.streamed # Null => fileReq.streamed = fileReq.stream
        /\ (resolved # normalizedRoot /\ ~IsUnder(resolved, normalizedRoot)) =>
             /\ fileReq.pc = "done" /\ fileReq.status = 403
             /\ fileReq.stream = Null /\ fileReq.streamed = Null

\* the router has answered 403 to ../sx/f, an existing file of the sibling
\* directory /srv/sx
C18_Witness ==
  /\ fileReq.server = "router" /\ fileReq.status = 403
  /\ fileReq.relative = [abs |-> FALSE, segs |-> <<DotDot, <<"s", "x">>, <<"f">> >>]
  /\ KindOf(fileReq.exists, << <<"s", "r", "v">>, <<"s", "x">>, <<"f">> >>) = "file"

\* ------------------------------------------------------------------ C19
\* the answer of the router to a finished request is one of those listed:
\* 403 outside the root, else 404 unless a regular file, else the file
\* with Accept-Ranges: bytes, or else (when withError) 500 with nothing sent
C19_Outcome(withError) ==
  (fileReq.server = "router" /\ fileReq.pc = "done") =>
    LET resolved == PathResolve(normalizedRoot, fileReq.relative)
    IN  IF resolved # normalizedRoot /\ ~IsUnder(resolved, normalizedRoot)
          THEN fileReq.status = 403 /\ fileReq.streamed = Null
        ELSE IF KindOf(fileReq.exists, resolved) # "file"
          THEN fileReq.status = 404 /\ fileReq.streamed = Null
        ELSE \/ /\ fileReq.status = 200
                /\ fileReq.streamed = Some(resolved)
                /\ "Accept-Ranges: bytes" \in fileReq.headers
             \/ /\ withError
                /\ fileReq.status = 500 /\ fileReq.streamed = Null

C20_FallbackOnlyInsideRoot ==
  fileReq.server = "fallback" =>
    LET full == PathJoin(SAMPLE_ROOT, fileReq.relative)
        outside == full # SAMPLE_ROOT /\ ~IsUnder(full, SAMPLE_ROOT)
    IN  /\ outside => fileReq.pc = "done" /\ fileReq.status = 403
        /\ fileReq.stream # Null => ~outside

\* the fallback server has sent the whole of /srv/sx/f, a file of the
\* sibling directory, in answer to ../sx/f
C20_Witness ==
  /\ fileReq.server = "fallback" /\ fileReq.status = 200
  /\ fileReq.relative = [abs |-> FALSE, segs |-> <<DotDot, <<"s", "x">>, <<"f">> >>]
  /\ fileReq.streamed = Some(<< <<"s", "r", "v">>, <<"s", "x">>, <<"f">> >>)

\* ------------------------------------------------------------------ C21
\* the steps in the nesting order of the contract, innermost first:
\* remove the characters outside the class, replace the white space, strip
\* the extension, lower the case
ContractOrderId(base) ==
  ToLowerCase(StripExtension(
    SpacesToUnderscore(SelectSeq(base, KeepIdChar), FALSE)))

\* the same steps with the white space replaced before the characters
\* outside the class are removed
ReplaceFirstId(base) ==
  ToLowerCase(StripExtension(
    SelectSeq(SpacesToUnderscore(base, FALSE), KeepIdChar)))

KickId ==
  <<"k", "i", "c", "k", "_", "d", "e", "e", "p", "_", "9", "5", "g", "m">>

\* C21 as stated: every id is that of the contract's nesting order, and
\* the id of "Kick Deep 95gm.wav" is "kick_deep_95gm".
C21_Original ==
  \A k \in 1..Len(idCalls) :
    /\ idCalls[k].id = ContractOrderId(Basename(idCalls[k].fullPath))
    /\ Basename(idCalls[k].fullPath) = KickName => idCalls[k].id = KickId

\* C21: every id is lowercase(strip_extension(remove(replace_whitespace(
\* base name)))), white space being replaced first, and the id of
\* "Kick Deep 95gm.wav" is "kick_deep_95gm".
C21_Amended ==
  \A k \in 1..Len(idCalls) :
    /\ idCalls[k].id = ReplaceFirstId(Basename(idCalls[k].fullPath))
    /\ Basename(idCalls[k].fullPath) = KickName => idCalls[k].id = KickId

\* createSampleId has returned "kick_deep_95gm" for "Kick Deep 95gm.wav"
C21_Witness ==
  \E k \in 1..Len(idCalls) :
    Basename(idCalls[k].fullPath) = KickName /\ idCalls[k].id = KickId

\* ------------------------------------------------------------------ C22
\* C22: two calls for paths with the same base name return the same id,
\* which is the id of the base name alone, whatever the directories.
C22_BaseNameOnly ==
  \A j, k \in 1..Len(idCalls) :
    /\ idCalls[k].id = createSampleId(<<Basename(idCalls[k].fullPath)>>)
    /\ Basename(idCalls[j].fullPath) = Basename(idCalls[k].fullPath)
         => idCalls[j].id = idCalls[k].id

\* "A .a" was given the id "a_" in a directory of the root and again
\* under another root
C22_Witness ==
  /\ Len(idCalls) = 2
  /\ idCalls[1].fullPath =
       normalizedRoot \o << <<"k", "i", "t">>, <<"A", " ", ".", "a">> >>
  /\ idCalls[2].fullPath =
       << <<"h", "o", "m", "e">>, <<"A", " ", ".", "a">> >>
  /\ idCalls[1].id = <<"a", "_">> /\ idCalls[2].id = idCalls[1].id

\* ------------------------------------------------------------------ C23
\* C23: the manifest maps _base to the URL of the files endpoint and every
\* other key is the id of a scanned entry, mapped to its relativePath.
C23_BaseIsTheFilesUrl ==
  (manifest.pc = "done" /\ manifest.status = 200) =>
    /\ BaseKey \in DOMAIN manifest.payload
    /\ manifest.payload[BaseKey] = BaseUrl
    /\ \A key \in DOMAIN manifest.payload \ {BaseKey} :
         \E k \in 1..Len(manifest.entries) :
           /\ manifest.entries[k].id = key
           /\ manifest.payload[key] =
                RelativePosix(manifest.entries[k].relativePath)

\* the file kit/_base.wav was scanned and the manifest maps _base to its
\* relativePath
C23_Witness ==
  /\ manifest.pc = "done" /\ manifest.status = 200
  /\ \E k \in 1..Len(manifest.entries) :
       manifest.entries[k].relativePath =
         << <<"k", "i", "t">>,
            <<"_", "b", "a", "s", "e", ".", "w", "a", "v">> >>
  /\ manifest.payload[BaseKey] =
       <<"k", "i", "t", "/", "_", "b", "a", "s", "e", ".", "w", "a", "v">>

BothEmptyAfter == ~samplesCache'.full /\ ~metadataCache'.full

\* the handler has had a miss on /metadata answered, so that both slots
\* have held a value
MetadataWasStored ==
  /\ cacheMaxSize = 0
  /\ req[1].pc = "done" /\ req[1].op = "metadata" /\ ~req[1].hit
  /\ Len(req[1].ret) > 0

\* ------------------------------------------------------------------ C25
\* C25: every call of the fs.watch callback of a router built with
\* enableHotReload leaves both slots empty.
C25_EventClearsBoth ==
  [][hot'.events # hot.events =>
       /\ hot.entry = "standalone" /\ hot.option
       /\ BothEmptyAfter]_vars

\* a watcher event has come after both slots were filled, and both are
\* empty
C25_Witness ==
  /\ hot.entry = "standalone" /\ hot.events = 1
  /\ MetadataWasStored /\ lastClear = "inv"
  /\ ~samplesCache.full /\ ~metadataCache.full

\* ------------------------------------------------------------------ C26
\* every watcher of the router has been closed
WatchersClosed ==
  /\ hot.pc = "created" /\ hot.watchers # <<>>
  /\ \A k \in 1..Len(hot.watchers) : ~hot.watchers[k].open

\* C26: the error listener closes the watcher and touches nothing else;
\* once the watcher is closed it stays closed and its callback is never
\* called again, so the slots change only by the steps of the requests and
\* by invalidateCaches.
C26_ClosedWatcherIsSilent ==
  [][/\ WatchersClosed => hot' = hot
     /\ hot'.watchers # hot.watchers /\ hot.pc = "created" =>
          /\ WatchersClosed'
          /\ UNCHANGED caches]_vars

\* the watcher is closed, the files have changed since the scan that is
\* cached, and the stale value is still served
C26_Witness ==
  /\ WatchersClosed /\ hot.events = 0 /\ lastClear = "none"
  /\ samplesCache.full /\ now < samplesCache.expires
  /\ samplesCache.value # Listing(fs)
  /\ req[1].pc = "done" /\ req[1].op = "entries" /\ req[1].hit

\* ------------------------------------------------------------------ C27
\* the standalone server was asked for hot reload and its router is built
\* or has failed to build
HotRouterAttempted ==
  hot.pc # "idle" /\ hot.entry = "standalone" /\ hot.option

C28_ClearThenSendOnce ==
  [][hot'.sent # hot.sent =>
       /\ hot.entry = "vite" /\ hot.option
       /\ Len(hot'.sent) = Len(hot.sent) + 1
       /\ SubSeq(hot'.sent, 1, Len(hot.sent)) = hot.sent
       /\ hot'.sent[Len(hot'.sent)].event = "strudel-sampler:update"
       /\ hot'.sent[Len(hot'.sent)].cleared
       /\ BothEmptyAfter]_vars

\* one message has been sent for kit/a.wav after both slots were filled,
\* and both were empty when it left
C28_Witness ==
  /\ hot.entry = "vite" /\ hot.option /\ Len(hot.sent) = 1
  /\ hot.sent[1].file =
       normalizedRoot \o << <<"k", "i", "t">>, <<"a", ".", "w", "a", "v">> >>
  /\ hot.sent[1].cleared
  /\ MetadataWasStored /\ lastClear = "inv"
  /\ ~samplesCache.full /\ ~metadataCache.full

\* ------------------------------------------------------------------ C29
\* C29: an entry point that was given enableHotReload = true watches the
\* sample root.
C29_OptionMeansWatched ==
  (hot.pc = "created" /\ hot.option) =>
    hot.viteWatch \/ hot.watchers # <<>>

\* an app of createSamplerApp was given enableHotReload = true, has no
\* watcher, and serves a cached list that the files no longer match
C29_Witness ==
  /\ hot.pc = "created" /\ hot.entry = "app" /\ hot.option
  /\ hot.watchers = <<>> /\ ~hot.viteWatch
  /\ samplesCache.full /\ now < samplesCache.expires
  /\ samplesCache.value # Listing(fs)
  /\ req[1].pc = "done" /\ req[1].op = "entries" /\ req[1].hit

\* ------------------------------------------------------------------ C30
\* the records that the metadata factory builds from entries e, one per
\* entry and in the order of e
RecordsOf(e) == [i \in 1..Len(e) |-> MetadataResult(e[i])]

\* both slots hold a value that get would serve, and no handler is waiting
\* for I/O
BothLiveAtRest ==
  /\ IsLive(samplesCache) /\ IsLive(metadataCache)
  /\ \A p \in Procs : ~InFlight(p)

\* C30: whenever both slots are live and no request is in flight, the
\* records of the metadata slot are those of the entries of the samples
\* slot, one per entry and in the same order.
C30_MetadataMatchesSamples ==
  BothLiveAtRest => metadataCache.value = RecordsOf(samplesCache.value)

\* both slots are live, no request is in flight, the samples slot holds
\* the present directory and the metadata slot the records of an older
\* scan, which a /metadata request has just been served
C30_Witness ==
  /\ BothLiveAtRest
  /\ samplesCache.value = Listing(fs)
  /\ metadataCache.value # RecordsOf(samplesCache.value)
  /\ metadataCache.expires > samplesCache.expires
  /\ lastClear = "none"
  /\ req[1].pc = "done" /\ req[1].op = "metadata" /\ req[1].hit
  /\ req[1].ret = metadataCache.value

\* ------------------------------------------------------------------ C31
\* this step is handler p receiving a /metadata request
MetadataArrives(p) ==
  /\ ~InFlight(p)
  /\ req'[p] # req[p]
  /\ req'[p].op = "metadata"

\* C31: a /metadata request that finds the metadata slot live is answered
\* with its value in the same step, with no call of loadEntries and both
\* slots untouched; one that finds it not live calls loadEntries, which
\* goes on with the value of the samples slot when that is live and starts
\* a scan only when it is not.
C31_HitTouchesNothing ==
  [][\A p \in Procs :
       MetadataArrives(p) =>
         IF IsLive(metadataCache)
           THEN /\ req'[p].pc = "done" /\ req'[p].hit
                /\ req'[p].ret = metadataCache.value
                /\ samplesCache' = samplesCache
                /\ metadataCache' = metadataCache
                /\ lastClear' = lastClear
           ELSE /\ ~req'[p].hit
                /\ IF IsLive(samplesCache)
                     THEN /\ req'[p].pc \in {"parse", "done"}
                          /\ req'[p].pc = "parse" =>
                               req'[p].entries = samplesCache.value
                          /\ req'[p].pc = "done" =>
                               samplesCache.value = <<>>
                     ELSE req'[p].pc = "readdir"]_vars

\* a /metadata request has been answered from the metadata slot while the
\* samples slot was empty, and no loadEntries call has been made since the
\* size test emptied it
C31_Witness ==
  /\ req[1].pc = "done" /\ req[1].op = "metadata" /\ req[1].hit
  /\ IsLive(metadataCache) /\ req[1].ret = metadataCache.value
  /\ Len(metadataCache.value) > 0
  /\ ~samplesCache.full /\ lastClear = "ovf"

\* ------------------------------------------------------------------ C33
\* C33: the dev middleware sends a notification (and clears the caches
\* for it) only for a file that lies under the sample root.
C33_OnlyUnderRootNotified ==
  \A i \in 1..Len(hot.sent) : IsUnder(hot.sent[i].file, normalizedRoot)

\* a change of /srv/sx/f, a file of a sibling directory of the root
\* /srv/s, has emptied both slots after they were filled and has been
\* announced to the clients
C33_Witness ==
  /\ hot.entry = "vite" /\ hot.option /\ Len(hot.sent) = 1
  /\ hot.sent[1].file = << <<"s", "r", "v">>, <<"s", "x">>, <<"f">> >>
  /\ ~IsUnder(hot.sent[1].file, normalizedRoot)
  /\ hot.sent[1].event = "strudel-sampler:update"
  /\ MetadataWasStored /\ lastClear = "inv"
  /\ ~samplesCache.full /\ ~metadataCache.full

\* ------------------------------------------------------------------ C32
\* no watcher is left in the array and every watcher is closed
AllDisposed(h) ==
  /\ h.registered = 0
  /\ \A k \in 1..Len(h.watchers) : ~h.watchers[k].open

\* C32: the 'close' event of the standalone server leaves both slots
\* empty, the watchers array empty and every watcher closed; once it has
\* happened the fs.watch callback is never called again; and on a later
\* 'close' event dispose changes nothing.
C32_CloseClearsAndDisposes ==
  [][hot.entry = "standalone" =>
       /\ hot'.closes # hot.closes =>
            /\ BothEmptyAfter
            /\ AllDisposed(hot')
            /\ hot.closes > 0 =>
                 /\ hot'.watchers = hot.watchers
                 /\ hot'.registered = hot.registered
       /\ hot.closes > 0 =>
            /\ hot'.events = hot.events
            /\ AllDisposed(hot')]_vars

\* the standalone server, whose watcher had delivered an event and whose
\* slots had been filled, has closed twice: the slots are empty, the
\* watcher is closed and the array is empty
C32_Witness ==
  /\ hot.entry = "standalone" /\ hot.option /\ hot.closes = 2
  /\ hot.watchers = <<[recursive |-> TRUE, open |-> FALSE]>>
  /\ hot.registered = 0 /\ hot.events = 1
  /\ MetadataWasStored /\ lastClear = "inv"
  /\ ~samplesCache.full /\ ~metadataCache.full

====
